---- MODULE Spec2Model ----
(***************************************************************************)
(* Log-delivery pipeline of logtide-sdk-go: the batch accumulator          *)
(* (batch.go), the client that wires it to the circuit breaker and the     *)
(* retrying executor (client.go, retry.go), and the circuit breaker        *)
(* (circuit_breaker.go).                                                   *)
(*                                                                         *)
(* Two state machines share this module:                                   *)
(*   SpecCB  a CircuitBreaker driven directly through its methods while    *)
(*           the clock advances;                                           *)
(*   Spec    a Batcher with its background worker, either standalone with  *)
(*           a test flush function or owned by a Client whose flush        *)
(*           function is Client.sendBatch.                                 *)
(* Time is an integer clock `now`; durations are in ticks of that clock.   *)
(***************************************************************************)
EXTENDS Integers, Sequences, FiniteSets, TLC

(* ------------------------------ bounds --------------------------------- *)
\* largest reading of the clock
MaxTime == 4
\* largest failure threshold a breaker is constructed with
MaxThreshold == 3
\* cap on the breaker's failure counter (the counter itself is unbounded)
MaxFailures == 4
\* open-duration of the breaker (CircuitBreakerConfig.Timeout), in clock ticks
OpenTimeout == 2

\* number of records the producers submit successfully
MaxRecords == 2
\* BatcherConfig.MaxSize / Config.BatchSize of the modelled batcher
maxSize == 2
\* submissions of a burst, more than one batch holds
BurstRecords == 3
\* RetryConfig.MaxRetries of the modelled client
MaxRetries == 1
\* CircuitBreakerConfig.FailureThreshold of the modelled client
ClientThreshold == 2

\* largest RetryConfig.MaxRetries withRetry is called with
MaxMaxRetries == 2
\* largest RetryConfig.MinBackoff and RetryConfig.MaxBackoff, in clock ticks
MaxMinBackoff == 4
MaxMaxBackoff == 8
\* rand.Float64() yields k / JitterSteps for k in 0..JitterSteps-1
JitterSteps == 4

(* --------------------------- circuit breaker --------------------------- *)
CircuitClosed == "closed"
CircuitOpen == "open"
CircuitHalfOpen == "half-open"
CircuitStates == {CircuitClosed, CircuitOpen, CircuitHalfOpen}

\* the zero value of time.Time (lastFailureTime before any failure)
ZeroTime == -1

VARIABLES
  \* ---- circuit breaker
  cb,         \* the CircuitBreaker: failureThreshold, timeout, state, failures,
              \* lastFailureTime, lastStateChange
  now,        \* the clock read by time.Now()
  cbRet,      \* the last breaker method called and what it returned
  cleanRun,   \* history: RecordFailure calls since the breaker was last closed
              \* with counter 0; -1 after a RecordSuccess that left it open
  hoRun,      \* history: RecordFailure calls since the last RecordSuccess that
              \* found the breaker half-open (counted up to MaxFailures), -1 if
              \* there was none
  hoFail,     \* history: the time of the RecordFailure that found the breaker
              \* half-open, while no Allow has succeeded and no Reset was made
              \* since; -1 otherwise
  streak,     \* history: RecordFailure calls since the last RecordSuccess, Reset
              \* or the construction (counted up to MaxFailures)
  tripped,    \* history: streak has reached the threshold since the
              \* construction or the last Reset
  \* ---- batcher (batch.go)
  flushFunc,  \* Batcher.flushFunc: "test" (a test's function) or "sendBatch"
  logs,       \* Batcher.logs, the buffer
  stopped,    \* Batcher.stopped
  flushChan,  \* Batcher.flushChan (capacity 1): TRUE when a size signal is pending
  ctxDone,    \* Batcher.ctx has been cancelled
  tickerC,    \* the worker's ticker channel (capacity 1): TRUE when a tick is pending
  \* ---- client (client.go)
  closed,     \* Client.closed
  \* ---- the goroutines inside Flush / Stop / Close / sendBatch / withRetry
  pc,         \* where each goroutine stands
  batch,      \* the batch a goroutine has detached in Flush
  attempt,    \* withRetry's loop variable
  sent,       \* sendBatch's locals resp, err once withRetry has returned
  ret,        \* what the last Flush / Stop / Close of a caller returned (the
              \* worker drops what Flush returns to it)
  trig,       \* the select case the worker took: "tick" or "size"
  userCtxDone,\* the context given to Client.Flush has been cancelled
  stopCtxDone,\* the 10 s context of Stop's final flush has expired
  \* ---- producers
  nextId,     \* the next record to submit; records 1..nextId-1 were accepted
  stored,     \* the Log that Client.log handed to batcher.Add, by record
  submitRet,  \* what the last Add / Client.log returned
  inAdd,      \* the Log of a Client.log that holds c.mu.RLock() and stands at
              \* batcher.Add, as a sequence of at most one Log
  \* ---- history
  calls,      \* invocations of the flush function: batch, caller, trigger
  delivered,  \* per record, how often the server took it with a 2xx answer
  envOK,      \* every delivery made with a live context has succeeded and every
              \* gate check has found the breaker closed, so far
  dirty,      \* an Add has appended since the goroutine's detach
  fnRet,      \* what the flush function returned to the caller's Flush
  late,       \* the Stop / Close of the goroutine found the flag already set
  \* ---- withRetry called directly (retry.go)
  rtConfig,   \* the RetryConfig: MaxRetries, MinBackoff, MaxBackoff
  rtPc,       \* "idle" (not called), "loop", "wait" (in the select), "done"
  rtAttempt,  \* the loop variable attempt
  rtResp,     \* the local resp: nil or the response of the last call
  rtErr,      \* the local err: nil or the error of the last call
  rtBackoff,  \* the local backoff while waiting, else 0
  rtTimer,    \* the channel of time.After(backoff) is ready
  rtCtxDone,  \* the context given to withRetry has been cancelled
  rtRet,      \* what withRetry returned: resp and err
  rtCalls,    \* history: how often the delivery function was invoked
  rtWaits,    \* history: how often withRetry entered its select
  rtAllRetry, \* history: shouldRetry held for every outcome so far
  rtClosed    \* history: the calls whose response body withRetry has closed

cbOnly == <<cbRet, cleanRun, hoRun, hoFail, streak, tripped>>
batcherVars == <<flushFunc, logs, stopped, flushChan, ctxDone, tickerC>>
procVars == <<pc, batch, attempt, sent, ret, dirty, trig, userCtxDone, stopCtxDone>>
histVars == <<nextId, stored, submitRet, inAdd, calls, delivered, envOK, late, fnRet>>
pipeVars == <<batcherVars, closed, procVars, histVars>>
retryVars == <<rtConfig, rtPc, rtAttempt, rtResp, rtErr, rtBackoff, rtTimer,
               rtCtxDone, rtRet, rtCalls, rtWaits, rtAllRetry, rtClosed>>
vars == <<cb, now, cbOnly, pipeVars, retryVars>>

NewCircuitBreaker(threshold, duration, t) ==
  [failureThreshold |-> threshold,
   timeout          |-> duration,
   state            |-> CircuitClosed,
   failures         |-> 0,
   lastFailureTime  |-> ZeroTime,
   lastStateChange  |-> t]

\* time.Since(cb.lastStateChange) >= cb.timeout
OpenElapsed_strict(c, t) == t - c.lastStateChange > c.timeout
OpenElapsed(c, t) == t - c.lastStateChange >= c.timeout

\* CircuitBreaker.Allow: the error it returns
AllowErr(c, t) ==
  IF c.state = CircuitOpen /\ ~OpenElapsed(c, t) THEN "ErrCircuitOpen" ELSE "nil"

\* CircuitBreaker.Allow: the breaker it leaves
AllowCB(c, t) ==
  IF c.state = CircuitOpen /\ OpenElapsed(c, t)
  THEN [c EXCEPT !.state = CircuitHalfOpen, !.lastStateChange = t]
  ELSE c

\* CircuitBreaker.RecordSuccess
RecordSuccess_decrement(c, t) ==
  LET r == [c EXCEPT !.failures = @ - 1]
  IN IF c.state = CircuitHalfOpen
     THEN [r EXCEPT !.state = CircuitClosed, !.lastStateChange = t]
     ELSE r
RecordSuccess_closesOpen(c, t) ==
  LET r == [c EXCEPT !.failures = 0]
  IN IF c.state # CircuitClosed
     THEN [r EXCEPT !.state = CircuitClosed, !.lastStateChange = t]
     ELSE r
RecordSuccess_alwaysCloses(c, t) ==
  [c EXCEPT !.failures = 0, !.state = CircuitClosed, !.lastStateChange = t]
RecordSuccess_keepCount(c, t) ==
  IF c.state = CircuitHalfOpen
  THEN [c EXCEPT !.state = CircuitClosed, !.lastStateChange = t]
  ELSE [c EXCEPT !.failures = 0]
RecordSuccess(c, t) ==
  LET r == [c EXCEPT !.failures = 0]
  IN IF c.state = CircuitHalfOpen
     THEN [r EXCEPT !.state = CircuitClosed, !.lastStateChange = t]
     ELSE r

\* CircuitBreaker.RecordFailure
RecordFailure_noRestart(c, t) ==
  LET r == [c EXCEPT !.failures = @ + 1, !.lastFailureTime = t]
  IN IF c.state = CircuitHalfOpen
     THEN [r EXCEPT !.state = CircuitOpen]
     ELSE IF r.failures >= r.failureThreshold
          THEN [r EXCEPT !.state = CircuitOpen, !.lastStateChange = t]
          ELSE r
RecordFailure_above(c, t) ==
  LET r == [c EXCEPT !.failures = @ + 1, !.lastFailureTime = t]
  IN IF c.state = CircuitHalfOpen
     THEN [r EXCEPT !.state = CircuitOpen, !.lastStateChange = t]
     ELSE IF r.failures > r.failureThreshold
          THEN [r EXCEPT !.state = CircuitOpen, !.lastStateChange = t]
          ELSE r
RecordFailure(c, t) ==
  LET r == [c EXCEPT !.failures = @ + 1, !.lastFailureTime = t]
  IN IF c.state = CircuitHalfOpen
     THEN [r EXCEPT !.state = CircuitOpen, !.lastStateChange = t]
     ELSE IF r.failures >= r.failureThreshold
          THEN [r EXCEPT !.state = CircuitOpen, !.lastStateChange = t]
          ELSE r

\* CircuitBreaker.Reset
Reset_keepFailures(c, t) ==
  [c EXCEPT !.state = CircuitClosed, !.lastStateChange = t]
Reset(c, t) ==
  [c EXCEPT !.state = CircuitClosed, !.failures = 0, !.lastStateChange = t]

(* ------------------------------ goroutines ----------------------------- *)
\* the goroutine started by NewBatcher
Worker == "worker"
\* a goroutine calling Flush (Batcher.Flush, or Client.Flush on a client)
Flusher == "flusher"
\* two goroutines calling Stop (Client.Close on a client)
Closers == {"closer1", "closer2"}
Procs == {Worker, Flusher} \cup Closers

\* the context a goroutine passes to Flush
CtxDone(p) ==
  IF p = Worker THEN ctxDone
  ELSE IF p = Flusher THEN userCtxDone
  ELSE stopCtxDone

(* -------------------------------- batcher ------------------------------ *)
\* Batcher.Add on buffer l, signal channel ch, stopped flag stp
Add_ignoreStopped(l, ch, stp, log) ==
  [err |-> "nil",
   logs |-> Append(l, log),
   flushChan |-> IF Len(Append(l, log)) >= maxSize THEN TRUE ELSE ch]
Add_signalAbove(l, ch, stp, log) ==
  IF stp
  THEN [err |-> "ErrClientClosed", logs |-> l, flushChan |-> ch]
  ELSE [err |-> "nil",
        logs |-> Append(l, log),
        flushChan |-> IF Len(Append(l, log)) > maxSize THEN TRUE ELSE ch]
Add_prepend(l, ch, stp, log) ==
  IF stp
  THEN [err |-> "ErrClientClosed", logs |-> l, flushChan |-> ch]
  ELSE [err |-> "nil",
        logs |-> <<log>> \o l,
        flushChan |-> IF Len(l) + 1 >= maxSize THEN TRUE ELSE ch]
Add_returnsFlushErr(l, ch, stp, log) ==
  IF stp
  THEN [err |-> "ErrClientClosed", logs |-> l, flushChan |-> ch]
  ELSE IF Len(Append(l, log)) >= maxSize
  THEN [err |-> "failed to send batch", logs |-> Append(l, log), flushChan |-> TRUE]
  ELSE [err |-> "nil", logs |-> Append(l, log), flushChan |-> ch]
Add(l, ch, stp, log) ==
  IF stp
  THEN [err |-> "ErrClientClosed", logs |-> l, flushChan |-> ch]
  ELSE [err |-> "nil",
        logs |-> Append(l, log),
        flushChan |-> IF Len(Append(l, log)) >= maxSize THEN TRUE ELSE ch]

\* Batcher.Flush: the early return on an empty buffer
FlushEmpty_never(l) == FALSE
FlushEmpty(l) == Len(l) = 0

\* Batcher.Flush: logs := make + copy(b.logs)
FlushCopy_dropLast(l) == [i \in 1..(Len(l) - 1) |-> l[i]]
FlushCopy(l) == [i \in 1..Len(l) |-> l[i]]

\* Batcher.Flush: b.logs = b.logs[:0]
FlushReset_keepLast(l) == SubSeq(l, Len(l), Len(l))
FlushReset(l) == SubSeq(l, 1, 0)

\* Batcher.Stop: the early return when already stopped
StopFound_never(stp) == FALSE
StopFound(stp) == stp

(* ------------------------- retry.go and validation --------------------- *)
\* what one call of the delivery function (httpClient.Post) yields
TransportErr == [err |-> TRUE, status |-> 0, body |-> FALSE]
Response(s, decodable) == [err |-> FALSE, status |-> s, body |-> decodable]
Outcomes ==
  {TransportErr, Response(200, TRUE), Response(200, FALSE), Response(400, TRUE),
   Response(429, TRUE), Response(500, TRUE)}

shouldRetry_all5xx(o) ==
  IF o.err THEN TRUE ELSE (o.status = 429 \/ o.status >= 500)
shouldRetry(o) ==
  IF o.err THEN TRUE ELSE o.status \in {429, 500, 502, 503, 504}

\* validLogLevels: the five LogLevel constants
validLogLevels == {"debug", "info", "warn", "error", "critical"}

\* spanIDRegex ^[a-fA-F0-9]{16}$ on a span id given as its sequence of characters
HexDigits ==
  {"0", "1", "2", "3", "4", "5", "6", "7", "8", "9",
   "a", "b", "c", "d", "e", "f", "A", "B", "C", "D", "E", "F"}
spanIDRegex(s) == Len(s) = 16 /\ \A i \in 1..Len(s) : s[i] \in HexDigits

\* validateLog: the first failing field decides the ValidationError
validateLog(entry) ==
  IF Len(entry.Service) = 0 THEN "ValidationError:service"
  ELSE IF Len(entry.Service) > 100 THEN "ValidationError:service"
  ELSE IF Len(entry.Message) = 0 THEN "ValidationError:message"
  ELSE IF entry.Level \notin validLogLevels THEN "ValidationError:level"
  ELSE IF entry.SpanID # <<>> /\ ~spanIDRegex(entry.SpanID) THEN "ValidationError:span_id"
  ELSE "nil"

\* The Log that Client.log builds: Service from the configuration that
\* Config.validate accepted, SpanID from a context that carries no span
NewLog(level, message) ==
  [Service |-> "svc", Level |-> level, Message |-> message, SpanID |-> <<>>]

\* validateBatch: the two bounds on the length, then validateLog on each Log
\* in order; the first failing Log decides the error, under its 0-based index
MaxBatchLen == 1000
FirstInvalid(logsArg) ==
  LET bad == {i \in 1..Len(logsArg) : validateLog(logsArg[i]) # "nil"}
  IN IF bad = {} THEN 0 ELSE CHOOSE i \in bad : \A j \in bad : i <= j
validateEach(logsArg) ==
  IF FirstInvalid(logsArg) = 0 THEN "nil"
  ELSE "log at index " \o ToString(FirstInvalid(logsArg) - 1) \o ": "
         \o validateLog(logsArg[FirstInvalid(logsArg)])
validateBatch_noUpperBound(logsArg) ==
  IF Len(logsArg) = 0 THEN "ValidationError:logs"
  ELSE validateEach(logsArg)
validateBatch(logsArg) ==
  IF Len(logsArg) = 0 THEN "ValidationError:logs"
  ELSE IF Len(logsArg) > MaxBatchLen THEN "ValidationError:logs"
  ELSE validateEach(logsArg)

\* the []Log that Batcher.Flush hands to the flush function for a detached
\* batch of records
LogsOf(b) == [i \in 1..Len(b) |-> stored[b[i]]]

\* Client.sendBatch after withRetry returned (o, err): the breaker call
sendBatchFailed(o, err) == err # "nil" \/ (~o.err /\ o.status >= 500)

\* Client.sendBatch after withRetry returned (o, err): the error returned;
\* read tells whether io.ReadAll got the whole body (ReadResponseBody's error
\* is dropped, DecodeResponse's is returned)
sendBatchErr(o, err, read) ==
  IF err # "nil" THEN "failed to send batch"
  ELSE IF o.status < 200 \/ o.status >= 300 THEN "HTTPError"
  ELSE IF ~read \/ ~o.body THEN "failed to decode response"
  ELSE "nil"

\* sendBatch's locals resp, err before withRetry has returned
NoSent == [o |-> TransportErr, err |-> "none"]

(* ------------------------------- Init ---------------------------------- *)
\* a pipeline at rest whose buffer holds the records l, all accepted, with
\* the size signal pending or not (ch)
InitPipeWith(ff, l, ch) ==
  /\ flushFunc = ff
  /\ logs = l
  /\ stopped = FALSE
  /\ flushChan = ch
  /\ ctxDone = FALSE
  /\ tickerC = FALSE
  /\ closed = FALSE
  /\ pc = [p \in Procs |-> IF p = Worker THEN "select" ELSE "idle"]
  /\ batch = [p \in Procs |-> <<>>]
  /\ attempt = [p \in Procs |-> 0]
  /\ sent = [p \in Procs |-> NoSent]
  /\ ret = [p \in Procs |-> "none"]
  /\ dirty = [p \in Procs |-> FALSE]
  /\ trig = "none"
  /\ userCtxDone = FALSE
  /\ stopCtxDone = FALSE
  /\ nextId = Len(l) + 1
  /\ stored = [i \in 1..Len(l) |-> NewLog("info", "m")]
  /\ submitRet = "none"
  /\ inAdd = <<>>
  /\ calls = <<>>
  /\ delivered = [r \in 1..MaxRecords |-> 0]
  /\ envOK = TRUE
  /\ late = [p \in Closers |-> FALSE]
  /\ fnRet = [p \in Procs |-> "none"]

\* the pipeline after construction
InitPipe(ff) == InitPipeWith(ff, <<>>, FALSE)

InitIdleCB ==
  /\ now = 0
  /\ cb = NewCircuitBreaker(ClientThreshold, OpenTimeout, 0)
  /\ cbRet = [op |-> "New", val |-> "nil"]
  /\ cleanRun = 0
  /\ hoRun = -1
  /\ hoFail = -1
  /\ streak = 0
  /\ tripped = FALSE

\* a nil *http.Response and a nil error
NoResp == [nil |-> TRUE, status |-> 0, call |-> 0]
NoErr == [nil |-> TRUE, kind |-> "", call |-> 0]

\* withRetry is not called directly
InitIdleRetry ==
  /\ rtConfig = [MaxRetries |-> MaxRetries, MinBackoff |-> 1, MaxBackoff |-> 1]
  /\ rtPc = "idle"
  /\ rtAttempt = 0
  /\ rtResp = NoResp
  /\ rtErr = NoErr
  /\ rtBackoff = 0
  /\ rtTimer = FALSE
  /\ rtCtxDone = FALSE
  /\ rtRet = [resp |-> NoResp, err |-> NoErr]
  /\ rtCalls = 0
  /\ rtWaits = 0
  /\ rtAllRetry = TRUE
  /\ rtClosed = {}

\* a standalone Batcher with a test's flush function (NewBatcher)
InitBatcher == InitPipe("test") /\ InitIdleCB /\ InitIdleRetry

\* a Client and its Batcher (New)
InitClient == InitPipe("sendBatch") /\ InitIdleCB /\ InitIdleRetry

Init == InitBatcher \/ InitClient

(* --------------------- how a goroutine moves on ------------------------ *)
\* goroutine p moves to position q and keeps its locals
Goes(p, q) ==
  /\ pc' = [pc EXCEPT ![p] = q]
  /\ UNCHANGED <<batch, attempt, sent, ret, dirty, trig, userCtxDone, stopCtxDone>>

\* Flush returns err in goroutine p and its locals go out of scope: the worker
\* drops err and selects again, Client.Flush releases the read lock and
\* returns err, Stop / Close return err. The 10 s context of the final flush
\* ends with the Stop that made it: a Stop or Close that returns early, having
\* found stopped or closed, leaves the other caller's context as it is
Returns(p, err) ==
  /\ pc' = [pc EXCEPT ![p] =
              IF p = Worker THEN "select"
              ELSE IF p = Flusher THEN "idle"
              ELSE "done"]
  /\ ret' = IF p = Worker THEN ret ELSE [ret EXCEPT ![p] = err]
  /\ batch' = [batch EXCEPT ![p] = <<>>]
  /\ attempt' = [attempt EXCEPT ![p] = 0]
  /\ sent' = [sent EXCEPT ![p] = NoSent]
  /\ dirty' = [dirty EXCEPT ![p] = FALSE]
  /\ trig' = IF p = Worker THEN "none" ELSE trig
  /\ userCtxDone' = IF p = Flusher THEN FALSE ELSE userCtxDone
  /\ stopCtxDone' = IF p \in Closers /\ pc[p] \in {"flush", "locked", "call", "run", "post", "backoff", "recorded"}
                    THEN FALSE ELSE stopCtxDone

\* Batcher.Flush: return b.flushFunc(ctx, logs)
FlushReturn_nil(err) == "nil"
FlushReturn(err) == err

\* the flush function returns err to the Flush of goroutine p
FlushFuncReturns(p, err) ==
  /\ fnRet' = IF p = Worker THEN fnRet ELSE [fnRet EXCEPT ![p] = err]
  /\ Returns(p, FlushReturn(err))

\* the positions between the detach of Flush and its return
InFlushPcs == {"call", "run", "post", "backoff", "recorded"}

\* goroutines that have detached a batch and not yet returned from Flush
InFlush == {p \in Procs : pc[p] \in InFlushPcs}

\* goroutine positions that hold Batcher.mu: Flush holds it from b.mu.Lock()
\* to the b.mu.Unlock() of its empty branch or after the detach; Add and Stop
\* lock and unlock within one step of theirs
HoldsMu_untilFlushReturns(q) == q = "locked" \/ q \in InFlushPcs
HoldsMu(q) == q = "locked"

\* b.mu.Lock() succeeds
MuFree == \A p \in Procs : ~HoldsMu(pc[p])

\* holders of Client.mu in read mode: Client.Flush keeps it from its entry to
\* its return, Client.log from its entry to the return of batcher.Add
readers ==
  (IF flushFunc = "sendBatch" /\ pc[Flusher] # "idle" THEN 1 ELSE 0)
    + (IF inAdd # <<>> THEN 1 ELSE 0)

\* a pending Lock() of Client.mu keeps new read locks out
WriterWaiting == \E c \in Closers : pc[c] = "lockwait"

\* a delivery is in progress: some goroutine is inside withRetry, in the
\* delivery call or in the wait between two attempts, or reads the response
Delivering == \E p \in Procs : pc[p] \in {"post", "backoff", "recorded"}

\* a Client.log that has been called stands at c.mu.RLock() and cannot take it
SubmitBlocked == flushFunc = "sendBatch" /\ WriterWaiting

\* records whose Add returned nil
accepted == 1..(nextId - 1)

(* ------------------------------ producers ------------------------------ *)
\* a direct Batcher.Add, by a producer that submits at most n records
BatcherAddUpTo(n) ==
  /\ flushFunc = "test"
  /\ nextId <= n
  /\ MuFree
  /\ LET a == Add(logs, flushChan, stopped, nextId)
     IN /\ logs' = a.logs
        /\ flushChan' = a.flushChan
        /\ submitRet' = a.err
        /\ nextId' = IF a.err = "nil" THEN nextId + 1 ELSE nextId
        /\ UNCHANGED <<stored, inAdd>>
        /\ dirty' = IF a.err = "nil" THEN [p \in Procs |-> p \in InFlush] ELSE dirty
  /\ UNCHANGED <<flushFunc, stopped, ctxDone, tickerC, closed, pc, batch, attempt, sent,
                 ret, trig, userCtxDone, stopCtxDone, calls, delivered, envOK,
                 late, cb, now, cbOnly, retryVars, fnRet>>

BatcherAdd == BatcherAddUpTo(MaxRecords)

\* the producer of a burst: BurstRecords submissions
BurstAdd == BatcherAddUpTo(BurstRecords)

\* Client.log on the Log it built, up to its call of batcher.Add: the closed
\* check, then validateLog; "nil" when it goes on to batcher.Add
logEntry_noValidation(isClosed, entry) ==
  IF isClosed THEN "ErrClientClosed" ELSE "nil"
logEntry(isClosed, entry) ==
  IF isClosed THEN "ErrClientClosed" ELSE validateLog(entry)

\* Client.Debug / Info / Warn / Error / Critical, all Client.log: take
\* c.mu.RLock(), return ErrClientClosed or the validation error, or go on to
\* batcher.Add with the read lock held; the producer makes its calls one
\* after the other
ClientLogUpTo(n, level, message) ==
  /\ flushFunc = "sendBatch"
  /\ nextId <= n
  /\ inAdd = <<>>
  /\ ~WriterWaiting
  /\ LET err == logEntry(closed, NewLog(level, message))
     IN IF err # "nil"
        THEN /\ submitRet' = err
             /\ UNCHANGED inAdd
        ELSE /\ submitRet' = "none"
             /\ inAdd' = <<NewLog(level, message)>>
  /\ UNCHANGED <<flushFunc, logs, flushChan, stopped, ctxDone, tickerC, closed, pc, batch,
                 attempt, sent, ret, dirty, trig, userCtxDone, stopCtxDone, nextId,
                 stored, calls, delivered, envOK, late, cb, now, cbOnly, retryVars,
                 fnRet>>

\* the batcher.Add of Client.log: b.mu.Lock(), the stopped check, the append
\* and the size signal; its result is what Client.log returns, and the
\* deferred c.mu.RUnlock() runs
ClientLogAdd ==
  /\ flushFunc = "sendBatch"
  /\ inAdd # <<>>
  /\ MuFree
  /\ LET a == Add(logs, flushChan, stopped, nextId)
     IN /\ logs' = a.logs
        /\ flushChan' = a.flushChan
        /\ submitRet' = a.err
        /\ nextId' = IF a.err = "nil" THEN nextId + 1 ELSE nextId
        /\ stored' = IF a.err = "nil" THEN Append(stored, inAdd[1]) ELSE stored
        /\ dirty' = IF a.err = "nil" THEN [p \in Procs |-> p \in InFlush] ELSE dirty
  /\ inAdd' = <<>>
  /\ UNCHANGED <<flushFunc, stopped, ctxDone, tickerC, closed, pc, batch, attempt, sent,
                 ret, trig, userCtxDone, stopCtxDone, calls, delivered, envOK,
                 late, cb, now, cbOnly, retryVars, fnRet>>

\* a submit by producers that get at most MaxRecords records accepted
ClientLogWith(level, message) == ClientLogUpTo(MaxRecords, level, message)

\* the submits made: a valid one, one with an empty message, one with a level
\* outside the five constants
ClientLog ==
  \E in \in {<<"info", "m">>, <<"info", "">>, <<"invalid", "m">>} :
    ClientLogWith(in[1], in[2])

(* ------------------------------- Flush --------------------------------- *)
\* Batcher.Flush: b.mu.Lock()
FlushLock(p) ==
  /\ pc[p] = "flush"
  /\ MuFree
  /\ Goes(p, "locked")
  /\ fnRet' = IF p = Worker THEN fnRet ELSE [fnRet EXCEPT ![p] = "none"]
  /\ UNCHANGED <<batcherVars, closed, nextId, stored, submitRet, inAdd, calls, delivered, envOK,
                 late, cb, now, cbOnly, retryVars>>

\* Batcher.Flush under b.mu: unlock and return on an empty buffer, else detach
\* the buffer and unlock
FlushDetach(p) ==
  /\ pc[p] = "locked"
  /\ IF FlushEmpty(logs)
     THEN /\ Returns(p, "nil")
          /\ UNCHANGED logs
     ELSE /\ batch' = [batch EXCEPT ![p] = FlushCopy(logs)]
          /\ logs' = FlushReset(logs)
          /\ dirty' = [dirty EXCEPT ![p] = FALSE]
          /\ pc' = [pc EXCEPT ![p] = "call"]
          /\ UNCHANGED <<attempt, sent, ret, trig, userCtxDone, stopCtxDone>>
  /\ UNCHANGED <<flushFunc, stopped, flushChan, ctxDone, tickerC, closed, nextId, stored,
                 submitRet, inAdd, calls, delivered, envOK, late, cb, now, cbOnly, retryVars,
                 fnRet>>

\* one invocation of the flush function, as the history keeps it
Call(p) == [batch |-> batch[p], by |-> p, trig |-> IF p = Worker THEN trig ELSE "none"]

\* Batcher.Flush calls b.flushFunc(ctx, logs) when that is a test's function
FlushCallTest(p) ==
  /\ pc[p] = "call"
  /\ flushFunc = "test"
  /\ calls' = Append(calls, Call(p))
  /\ Goes(p, "run")
  /\ UNCHANGED <<batcherVars, closed, nextId, stored, submitRet, inAdd, delivered, envOK, late,
                 cb, now, cbOnly, retryVars, fnRet>>

\* the test's flush function returns nil or an error
TestFlushFunc(p) ==
  /\ pc[p] = "run"
  /\ \E err \in {"nil", "error"} : FlushFuncReturns(p, err)
  /\ UNCHANGED <<batcherVars, closed, nextId, stored, submitRet, inAdd, calls, delivered, envOK,
                 late, cb, now, cbOnly, retryVars>>

(* ------------------------ sendBatch and withRetry ---------------------- *)
\* Batcher.Flush calls Client.sendBatch: validateBatch, then the breaker's gate
SendBatchEnter(p) ==
  /\ pc[p] = "call"
  /\ flushFunc = "sendBatch"
  /\ calls' = Append(calls, Call(p))
  /\ IF validateBatch(LogsOf(batch[p])) # "nil"
     THEN /\ FlushFuncReturns(p, "invalid batch")
          /\ UNCHANGED <<cb, envOK>>
     ELSE /\ cb' = AllowCB(cb, now)
          /\ envOK' = (envOK /\ cb.state = CircuitClosed)
          /\ IF AllowErr(cb, now) # "nil"
             THEN FlushFuncReturns(p, AllowErr(cb, now))
             ELSE Goes(p, "post") /\ UNCHANGED fnRet
  /\ UNCHANGED <<batcherVars, closed, nextId, stored, submitRet, inAdd, delivered, late, now,
                 cbOnly, retryVars>>

\* sendBatch once withRetry has returned (o, err): the one call of
\* RecordFailure or RecordSuccess; the goroutine goes on to read the response
SendBatchRecord_perAttempt(p, o, err) ==
  /\ cb' = IF sendBatchFailed(o, err)
           THEN IF attempt[p] > 0 THEN RecordFailure(RecordFailure(cb, now), now)
                ELSE RecordFailure(cb, now)
           ELSE RecordSuccess(cb, now)
  /\ sent' = [sent EXCEPT ![p] = [o |-> o, err |-> err]]
  /\ pc' = [pc EXCEPT ![p] = "recorded"]
  /\ UNCHANGED <<batch, attempt, ret, dirty, trig, userCtxDone, stopCtxDone>>
SendBatchRecord(p, o, err) ==
  /\ cb' = IF sendBatchFailed(o, err) THEN RecordFailure(cb, now)
           ELSE RecordSuccess(cb, now)
  /\ sent' = [sent EXCEPT ![p] = [o |-> o, err |-> err]]
  /\ pc' = [pc EXCEPT ![p] = "recorded"]
  /\ UNCHANGED <<batch, attempt, ret, dirty, trig, userCtxDone, stopCtxDone>>

\* whether io.ReadAll(resp.Body) can get the whole body: with a live context
\* it does; with a finished one it fails, unless the body had arrived already
BodyReads(p) == IF CtxDone(p) THEN {TRUE, FALSE} ELSE {TRUE}

\* sendBatch after the breaker call: the error of withRetry, or the body is
\* read under the request's context and the status or the decoding decides
SendBatchReturn(p) ==
  /\ pc[p] = "recorded"
  /\ \E read \in BodyReads(p) :
       FlushFuncReturns(p, sendBatchErr(sent[p].o, sent[p].err, read))
  /\ UNCHANGED <<batcherVars, closed, nextId, stored, submitRet, inAdd, calls, delivered, envOK,
                 late, cb, now, cbOnly, retryVars>>

\* the server has taken the records of batch b
Took(b) ==
  [r \in 1..MaxRecords |->
     IF \E i \in 1..Len(b) : b[i] = r THEN delivered[r] + 1 ELSE delivered[r]]

\* one iteration of withRetry's loop: call the delivery function, then return
\* or go to the backoff wait; a delivery made with a finished context fails
Post(p) ==
  /\ pc[p] = "post"
  /\ \E o \in (IF CtxDone(p) THEN {TransportErr} ELSE Outcomes) :
       /\ envOK' = (envOK /\ (CtxDone(p) \/ o = Response(200, TRUE)))
       /\ delivered' = IF ~o.err /\ o.status \in 200..299 THEN Took(batch[p])
                       ELSE delivered
       /\ IF ~shouldRetry(o)
          THEN SendBatchRecord(p, o, "nil")
          ELSE IF attempt[p] = MaxRetries
          THEN IF o.err
               THEN SendBatchRecord(p, TransportErr, "max retries exceeded")
               ELSE SendBatchRecord(p, o, "nil")
          ELSE /\ Goes(p, "backoff")
               /\ UNCHANGED cb
  /\ UNCHANGED <<batcherVars, closed, nextId, stored, submitRet, inAdd, calls, late, now, cbOnly,
                 retryVars, fnRet>>

\* withRetry's select: the backoff elapses, the loop goes to the next attempt
BackoffElapsed(p) ==
  /\ pc[p] = "backoff"
  /\ attempt' = [attempt EXCEPT ![p] = @ + 1]
  /\ pc' = [pc EXCEPT ![p] = "post"]
  /\ UNCHANGED <<batch, sent, ret, dirty, trig, userCtxDone, stopCtxDone>>
  /\ UNCHANGED <<batcherVars, closed, nextId, stored, submitRet, inAdd, calls, delivered, envOK,
                 late, cb, now, cbOnly, retryVars, fnRet>>

\* withRetry's select: the context is done, return (nil, ctx.Err())
BackoffCancelled(p) ==
  /\ pc[p] = "backoff"
  /\ CtxDone(p)
  /\ SendBatchRecord(p, TransportErr, "context canceled")
  /\ UNCHANGED <<batcherVars, closed, nextId, stored, submitRet, inAdd, calls, delivered, envOK,
                 late, now, cbOnly, retryVars, fnRet>>

(* --------------------------- background worker ------------------------- *)
\* backgroundFlusher's select takes <-b.ctx.Done(): the goroutine ends
\* (wg.Done, ticker.Stop)
WorkerDone ==
  /\ pc[Worker] = "select"
  /\ ctxDone
  /\ Goes(Worker, "exited")
  /\ tickerC' = FALSE
  /\ UNCHANGED <<flushFunc, logs, stopped, flushChan, ctxDone, closed, nextId, stored,
                 submitRet, inAdd, calls, delivered, envOK, late, cb, now, cbOnly, retryVars, fnRet>>

\* backgroundFlusher's select takes <-ticker.C and calls Flush(b.ctx)
WorkerTick_noFlush ==
  /\ pc[Worker] = "select"
  /\ tickerC
  /\ tickerC' = FALSE
  /\ UNCHANGED <<flushFunc, logs, stopped, flushChan, ctxDone, closed, procVars,
                 histVars, cb, now, cbOnly, retryVars>>
WorkerTick ==
  /\ pc[Worker] = "select"
  /\ tickerC
  /\ tickerC' = FALSE
  /\ trig' = "tick"
  /\ pc' = [pc EXCEPT ![Worker] = "flush"]
  /\ UNCHANGED <<batch, attempt, sent, ret, dirty, userCtxDone, stopCtxDone>>
  /\ UNCHANGED <<flushFunc, logs, stopped, flushChan, ctxDone, closed, nextId, stored,
                 submitRet, inAdd, calls, delivered, envOK, late, cb, now, cbOnly, retryVars, fnRet>>

\* backgroundFlusher's select takes <-b.flushChan and calls Flush(b.ctx)
WorkerSignal ==
  /\ pc[Worker] = "select"
  /\ flushChan
  /\ flushChan' = FALSE
  /\ trig' = "size"
  /\ pc' = [pc EXCEPT ![Worker] = "flush"]
  /\ UNCHANGED <<batch, attempt, sent, ret, dirty, userCtxDone, stopCtxDone>>
  /\ UNCHANGED <<flushFunc, logs, stopped, ctxDone, tickerC, closed, nextId, stored,
                 submitRet, inAdd, calls, delivered, envOK, late, cb, now, cbOnly, retryVars, fnRet>>

\* the ticker delivers a tick (it is stopped when the worker ends)
TimerFire ==
  /\ pc[Worker] # "exited"
  /\ ~tickerC
  /\ tickerC' = TRUE
  /\ UNCHANGED <<flushFunc, logs, stopped, flushChan, ctxDone, closed, procVars,
                 histVars, cb, now, cbOnly, retryVars>>

(* -------------------------------- Stop --------------------------------- *)
\* a direct call of Batcher.Stop
BatcherStopCall(p) ==
  /\ flushFunc = "test"
  /\ pc[p] = "idle"
  /\ Goes(p, "stop")
  /\ UNCHANGED <<batcherVars, closed, nextId, stored, submitRet, inAdd, calls, delivered, envOK,
                 late, cb, now, cbOnly, retryVars, fnRet>>

\* Batcher.Stop under b.mu: return nil when already stopped, else set the flag
StopEnter(p) ==
  /\ pc[p] = "stop"
  /\ MuFree
  /\ late' = IF flushFunc = "test" THEN [late EXCEPT ![p] = stopped] ELSE late
  /\ IF StopFound(stopped)
     THEN /\ Returns(p, "nil")
          /\ UNCHANGED stopped
     ELSE /\ stopped' = TRUE
          /\ Goes(p, "cancel")
  /\ UNCHANGED <<flushFunc, logs, flushChan, ctxDone, tickerC, closed, nextId, stored,
                 submitRet, inAdd, calls, delivered, envOK, cb, now, cbOnly, retryVars, fnRet>>

\* Batcher.Stop: b.cancel()
StopCancel(p) ==
  /\ pc[p] = "cancel"
  /\ ctxDone' = TRUE
  /\ Goes(p, "wait")
  /\ UNCHANGED <<flushFunc, logs, stopped, flushChan, tickerC, closed, nextId, stored,
                 submitRet, inAdd, calls, delivered, envOK, late, cb, now, cbOnly, retryVars, fnRet>>

\* Batcher.Stop: b.wg.Wait() returns, then the final Flush with a 10 s context
StopWait_noWait(p) ==
  /\ pc[p] = "wait"
  /\ Goes(p, "flush")
  /\ UNCHANGED <<batcherVars, closed, nextId, stored, submitRet, inAdd, calls, delivered, envOK,
                 late, cb, now, cbOnly, retryVars, fnRet>>
StopWait(p) ==
  /\ pc[p] = "wait"
  /\ pc[Worker] = "exited"
  /\ Goes(p, "flush")
  /\ UNCHANGED <<batcherVars, closed, nextId, stored, submitRet, inAdd, calls, delivered, envOK,
                 late, cb, now, cbOnly, retryVars, fnRet>>

\* the 10 s deadline of the final flush passes while the delivery is in
\* flight, while withRetry waits or while the response is read; the HTTP call
\* is the first to read the context
StopTimeout ==
  /\ \E p \in Closers : pc[p] \in {"post", "backoff", "recorded"}
  /\ ~stopCtxDone
  /\ stopCtxDone' = TRUE
  /\ UNCHANGED <<pc, batch, attempt, sent, ret, dirty, trig, userCtxDone>>
  /\ UNCHANGED <<batcherVars, closed, nextId, stored, submitRet, inAdd, calls, delivered, envOK,
                 late, cb, now, cbOnly, retryVars, fnRet>>

(* ----------------------------- Client.Close ---------------------------- *)
\* Client.Close: c.mu.Lock() is requested
CloseBegin(p) ==
  /\ flushFunc = "sendBatch"
  /\ pc[p] = "idle"
  /\ Goes(p, "lockwait")
  /\ UNCHANGED <<batcherVars, closed, nextId, stored, submitRet, inAdd, calls, delivered, envOK,
                 late, cb, now, cbOnly, retryVars, fnRet>>

\* Client.Close holding c.mu: return nil when already closed, else set the flag
\* and go on to batcher.Stop()
CloseLocked(p) ==
  /\ pc[p] = "lockwait"
  /\ readers = 0
  /\ late' = [late EXCEPT ![p] = closed]
  /\ IF closed
     THEN /\ Returns(p, "nil")
          /\ UNCHANGED closed
     ELSE /\ closed' = TRUE
          /\ Goes(p, "stop")
  /\ UNCHANGED <<batcherVars, nextId, stored, submitRet, inAdd, calls, delivered, envOK, cb, now,
                 cbOnly, retryVars, fnRet>>

(* ----------------------------- manual Flush ---------------------------- *)
\* a direct call of Batcher.Flush
BatcherFlushCall ==
  /\ flushFunc = "test"
  /\ pc[Flusher] = "idle"
  /\ Goes(Flusher, "flush")
  /\ UNCHANGED <<batcherVars, closed, nextId, stored, submitRet, inAdd, calls, delivered, envOK,
                 late, cb, now, cbOnly, retryVars, fnRet>>

\* Client.Flush: take c.mu.RLock(), return ErrClientClosed when closed, else
\* call batcher.Flush(ctx) keeping the read lock
ClientFlush ==
  /\ flushFunc = "sendBatch"
  /\ pc[Flusher] = "idle"
  /\ ~WriterWaiting
  /\ IF closed
     THEN /\ ret' = [ret EXCEPT ![Flusher] = "ErrClientClosed"]
          /\ UNCHANGED pc
     ELSE /\ pc' = [pc EXCEPT ![Flusher] = "flush"]
          /\ ret' = [ret EXCEPT ![Flusher] = "none"]
  /\ UNCHANGED <<batch, attempt, sent, dirty, trig, userCtxDone, stopCtxDone>>
  /\ UNCHANGED <<batcherVars, closed, nextId, stored, submitRet, inAdd, calls, delivered, envOK,
                 late, cb, now, cbOnly, retryVars, fnRet>>

\* the caller of Client.Flush cancels its context during the delivery
CancelUser ==
  /\ pc[Flusher] \in {"post", "backoff", "recorded"}
  /\ ~userCtxDone
  /\ userCtxDone' = TRUE
  /\ UNCHANGED <<pc, batch, attempt, sent, ret, dirty, trig, stopCtxDone>>
  /\ UNCHANGED <<batcherVars, closed, nextId, stored, submitRet, inAdd, calls, delivered, envOK,
                 late, cb, now, cbOnly, retryVars, fnRet>>

\* the clock advances while the client runs; the breaker reads it only while
\* it is open (Allow) and compares it only with the time it opened, so the
\* advance is modelled from the moment the breaker opens
ClockTick ==
  /\ flushFunc = "sendBatch"
  /\ cb.state = CircuitOpen
  /\ now < MaxTime
  /\ now' = now + 1
  /\ UNCHANGED <<pipeVars, cb, cbOnly, retryVars>>

(* ------------------------------ the machines --------------------------- *)
\* steps of a Batcher whatever its flush function
BatcherStep ==
  \/ \E p \in Procs : FlushLock(p)
  \/ \E p \in Procs : FlushDetach(p)
  \/ WorkerDone
  \/ WorkerTick
  \/ WorkerSignal
  \/ TimerFire
  \/ \E p \in Closers : StopEnter(p)
  \/ \E p \in Closers : StopCancel(p)
  \/ \E p \in Closers : StopWait(p)

\* steps of a standalone Batcher and its callers
TestStep ==
  \/ BatcherAdd
  \/ BatcherFlushCall
  \/ \E p \in Closers : BatcherStopCall(p)
  \/ \E p \in Procs : FlushCallTest(p)
  \/ \E p \in Procs : TestFlushFunc(p)

\* steps of a Client and its callers
ClientStep ==
  \/ ClientLog
  \/ ClientLogAdd
  \/ ClientFlush
  \/ CancelUser
  \/ \E p \in Closers : CloseBegin(p)
  \/ \E p \in Closers : CloseLocked(p)
  \/ \E p \in Procs : SendBatchEnter(p)
  \/ \E p \in Procs : Post(p)
  \/ \E p \in Procs : SendBatchReturn(p)
  \/ \E p \in Procs : BackoffElapsed(p)
  \/ \E p \in Procs : BackoffCancelled(p)
  \/ StopTimeout
  \/ ClockTick

NextBatcher == BatcherStep \/ TestStep

\* a standalone Batcher whose flush interval is longer than the run and whose
\* callers only submit and stop: no tick arrives, no manual Flush is made
NextBurst ==
  \/ BurstAdd
  \/ WorkerSignal
  \/ WorkerDone
  \/ \E p \in Procs : FlushLock(p)
  \/ \E p \in Procs : FlushDetach(p)
  \/ \E p \in Procs : FlushCallTest(p)
  \/ \E p \in Procs : TestFlushFunc(p)
  \/ \E p \in Closers : BatcherStopCall(p)
  \/ \E p \in Closers : StopEnter(p)
  \/ \E p \in Closers : StopCancel(p)
  \/ \E p \in Closers : StopWait(p)
Next == BatcherStep \/ TestStep \/ ClientStep

\* the pipeline: a standalone Batcher or a Client with its Batcher
Spec == Init /\ [][Next]_vars

\* a standalone Batcher whose goroutines, once inside a call, keep running
\* and whose ticker keeps firing; callers are free never to call
SpecFair ==
  /\ InitBatcher
  /\ [][NextBatcher]_vars
  /\ \A p \in Procs : WF_vars(FlushLock(p) \/ FlushDetach(p) \/ FlushCallTest(p) \/ TestFlushFunc(p))
  /\ WF_vars(WorkerDone \/ WorkerTick \/ WorkerSignal)
  /\ WF_vars(TimerFire)
  /\ \A p \in Closers : WF_vars(StopEnter(p) \/ StopCancel(p) \/ StopWait(p))

\* n failed batches in a row, recorded at time t
RECURSIVE RecordFailures(_, _, _)
RecordFailures(c, n, t) ==
  IF n = 0 THEN c ELSE RecordFailures(RecordFailure(c, t), n - 1, t)

\* a Client at rest whose breaker is new, or has just been opened by
\* ClientThreshold failed batches, and whose buffer holds the records l
InitGateWith(l, ch) ==
  /\ InitPipeWith("sendBatch", l, ch)
  /\ InitIdleRetry
  /\ now = 0
  /\ cb \in {NewCircuitBreaker(ClientThreshold, OpenTimeout, 0),
             RecordFailures(NewCircuitBreaker(ClientThreshold, OpenTimeout, 0),
                            ClientThreshold, 0)}
  /\ cbRet = [op |-> "New", val |-> "nil"]
  /\ cleanRun = 0
  /\ hoRun = -1
  /\ hoFail = -1
  /\ streak = 0
  /\ tripped = FALSE

InitGate == InitGateWith(<<>>, FALSE)

\* a Client whose buffer has grown to MaxBatchLen records (its BatchSize is
\* larger, or the producers have outrun the worker), the size signal pending
InitBig == InitGateWith([i \in 1..MaxBatchLen |-> i], TRUE)

\* one more submit while the buffer is that large
BigLog ==
  \E in \in {<<"info", "m">>, <<"info", "">>, <<"invalid", "m">>} :
    ClientLogUpTo(MaxBatchLen + 1, in[1], in[2])

\* steps of the client with the large buffer; its flush interval is longer
\* than the run, so the worker flushes on the size signal only
NextBig ==
  \/ BigLog
  \/ ClientLogAdd
  \/ ClientFlush
  \/ CancelUser
  \/ \E p \in Procs : FlushLock(p)
  \/ \E p \in Procs : FlushDetach(p)
  \/ WorkerSignal
  \/ \E p \in Procs : SendBatchEnter(p)
  \/ \E p \in Procs : Post(p)
  \/ \E p \in Procs : SendBatchReturn(p)
  \/ \E p \in Procs : BackoffElapsed(p)
  \/ \E p \in Procs : BackoffCancelled(p)
  \/ ClockTick

\* the client whose detached batch may exceed validateBatch's upper bound
SpecBig == InitBig /\ [][NextBig]_vars

\* steps of a Client that is not closed: submits, manual and background
\* flushes, deliveries and the clock
NextGate ==
  \/ ClientLog
  \/ ClientLogAdd
  \/ ClientFlush
  \/ CancelUser
  \/ \E p \in Procs : FlushLock(p)
  \/ \E p \in Procs : FlushDetach(p)
  \/ WorkerTick
  \/ WorkerSignal
  \/ TimerFire
  \/ \E p \in Procs : SendBatchEnter(p)
  \/ \E p \in Procs : Post(p)
  \/ \E p \in Procs : SendBatchReturn(p)
  \/ \E p \in Procs : BackoffElapsed(p)
  \/ \E p \in Procs : BackoffCancelled(p)
  \/ ClockTick

\* the client in front of a breaker that is closed or open
SpecGate == InitGate /\ [][NextGate]_vars

\* the burst: more submissions than one batch holds, then Stop
SpecBurst == InitBatcher /\ [][NextBurst]_vars

\* the burst with goroutines that keep running once inside a call; no tick
\* arrives, so only the size signal and Stop make the worker or Stop flush
SpecBurstFair ==
  /\ InitBatcher
  /\ [][NextBurst]_vars
  /\ \A p \in Procs : WF_vars(FlushLock(p) \/ FlushDetach(p) \/ FlushCallTest(p) \/ TestFlushFunc(p))
  /\ WF_vars(WorkerDone \/ WorkerSignal)
  /\ \A p \in Closers : WF_vars(StopEnter(p) \/ StopCancel(p) \/ StopWait(p))

\* a standalone Batcher and its callers
SpecBatcher == InitBatcher /\ [][NextBatcher]_vars

(* ----------------- the breaker driven through its methods -------------- *)
InitCB ==
  /\ now = 0
  /\ \E threshold \in 1..MaxThreshold :
       cb = NewCircuitBreaker(threshold, OpenTimeout, 0)
  /\ cbRet = [op |-> "New", val |-> "nil"]
  /\ cleanRun = 0
  /\ hoRun = -1
  /\ hoFail = -1
  /\ streak = 0
  /\ tripped = FALSE
  /\ InitPipe("sendBatch")
  /\ InitIdleRetry

CBAllow ==
  /\ cb' = AllowCB(cb, now)
  /\ cbRet' = [op |-> "Allow", val |-> AllowErr(cb, now)]
  /\ hoFail' = IF AllowErr(cb, now) = "nil" THEN -1 ELSE hoFail
  /\ UNCHANGED <<now, cleanRun, hoRun, streak, tripped, pipeVars, retryVars>>

CBRecordSuccess ==
  /\ cb' = RecordSuccess(cb, now)
  /\ cbRet' = [op |-> "RecordSuccess", val |-> "nil"]
  /\ cleanRun' = IF cb'.state = CircuitClosed /\ cb'.failures = 0 THEN 0 ELSE -1
  /\ hoRun' = IF cb.state = CircuitHalfOpen THEN 0 ELSE hoRun
  /\ streak' = 0
  /\ UNCHANGED <<now, hoFail, tripped, pipeVars, retryVars>>

CBRecordFailure ==
  /\ cb.failures < MaxFailures
  /\ cb' = RecordFailure(cb, now)
  /\ cbRet' = [op |-> "RecordFailure", val |-> "nil"]
  /\ cleanRun' = IF cleanRun >= 0 THEN cleanRun + 1 ELSE cleanRun
  /\ hoRun' = IF hoRun >= 0 /\ hoRun < MaxFailures THEN hoRun + 1 ELSE hoRun
  /\ hoFail' = IF cb.state = CircuitHalfOpen THEN now ELSE hoFail
  /\ streak' = IF streak < MaxFailures THEN streak + 1 ELSE streak
  /\ tripped' = (tripped \/ streak' >= cb.failureThreshold)
  /\ UNCHANGED <<now, pipeVars, retryVars>>

CBReset ==
  /\ cb' = Reset(cb, now)
  /\ cbRet' = [op |-> "Reset", val |-> "nil"]
  /\ cleanRun' = 0
  /\ hoFail' = -1
  /\ streak' = 0
  /\ tripped' = FALSE
  /\ UNCHANGED <<now, hoRun, pipeVars, retryVars>>

\* CircuitBreaker.State
CBState ==
  /\ cbRet' = [op |-> "State", val |-> cb.state]
  /\ UNCHANGED <<cb, now, cleanRun, hoRun, hoFail, streak, tripped, pipeVars, retryVars>>

\* CircuitBreaker.Failures
CBFailures ==
  /\ cbRet' = [op |-> "Failures", val |-> cb.failures]
  /\ UNCHANGED <<cb, now, cleanRun, hoRun, hoFail, streak, tripped, pipeVars, retryVars>>

\* the clock advances; the breaker has no timer of its own
AdvanceTime ==
  /\ now < MaxTime
  /\ now' = now + 1
  /\ cbRet' = [op |-> "Sleep", val |-> "nil"]
  /\ UNCHANGED <<cb, cleanRun, hoRun, hoFail, streak, tripped, pipeVars, retryVars>>

NextCB ==
  \/ CBAllow
  \/ CBRecordSuccess
  \/ CBRecordFailure
  \/ CBReset
  \/ CBState
  \/ CBFailures
  \/ AdvanceTime

SpecCB == InitCB /\ [][NextCB]_vars

(* ------------------------ withRetry called directly -------------------- *)
\* the status codes the delivery function answers with
Statuses == {200, 204, 400, 401, 403, 404, 429, 500, 501, 502, 503, 504}

\* what the k-th call of the delivery function can yield: an error without a
\* response, or a response; `call` tells the values of different calls apart
RetryOutcomes(k) ==
  {[err |-> TRUE, status |-> 0, body |-> FALSE, call |-> k]}
    \cup {[err |-> FALSE, status |-> st, body |-> TRUE, call |-> k] : st \in Statuses}

\* math.Pow(2, attempt)
RECURSIVE Pow2(_)
Pow2(a) == IF a <= 0 THEN 1 ELSE 2 * Pow2(a - 1)

\* calculateBackoff before the jitter: min_backoff * 2^attempt, capped
cappedBackoff_noCap(a, config) == config.MinBackoff * Pow2(a)
cappedBackoff(a, config) ==
  IF config.MinBackoff * Pow2(a) > config.MaxBackoff
  THEN config.MaxBackoff
  ELSE config.MinBackoff * Pow2(a)

\* calculateBackoff when rand.Float64() yields k / JitterSteps: the capped
\* backoff plus the jitter rand * 0.25 * backoff, truncated to a Duration
calculateBackoff(a, config, k) ==
  LET backoff == cappedBackoff(a, config)
  IN (4 * JitterSteps * backoff + k * backoff) \div (4 * JitterSteps)

\* withRetry: the loop condition attempt <= config.MaxRetries
LoopCond_strict(a, config) == a < config.MaxRetries
LoopCond(a, config) == a <= config.MaxRetries

\* withRetry: return resp, err on an outcome that is not retried, and after
\* the loop
TerminalRet_wrapped(resp, err) ==
  [resp |-> NoResp, err |-> [err EXCEPT !.nil = FALSE, !.kind = "max retries exceeded"]]
TerminalRet(resp, err) == [resp |-> resp, err |-> err]

\* withRetry: what it returns when the last attempt was retryable; the error
\* wraps the error of that attempt
ExhaustedRet_synthesized(resp, err) ==
  [resp |-> NoResp, err |-> [err EXCEPT !.nil = FALSE, !.kind = "max retries exceeded"]]
ExhaustedRet(resp, err) ==
  IF ~err.nil
  THEN [resp |-> NoResp, err |-> [err EXCEPT !.kind = "max retries exceeded"]]
  ELSE [resp |-> resp, err |-> NoErr]

\* withRetry: return nil, ctx.Err() from the select
CancelRet_keepResp(resp) ==
  [resp |-> resp, err |-> [nil |-> FALSE, kind |-> "context canceled", call |-> 0]]
CancelRet(resp) ==
  [resp |-> NoResp, err |-> [nil |-> FALSE, kind |-> "context canceled", call |-> 0]]

\* a caller's configuration: fields as RetryConfig allows them (MaxRetries is
\* not validated; the durations are positive with MinBackoff <= MaxBackoff)
RetryConfigs ==
  [MaxRetries : -1..MaxMaxRetries, MinBackoff : 1..MaxMinBackoff,
   MaxBackoff : 1..MaxMaxBackoff]

InitRetry ==
  /\ rtConfig \in {c \in RetryConfigs : c.MinBackoff <= c.MaxBackoff}
  /\ rtPc = "loop"
  /\ rtAttempt = 0
  /\ rtResp = NoResp
  /\ rtErr = NoErr
  /\ rtBackoff = 0
  /\ rtTimer = FALSE
  /\ rtCtxDone = FALSE
  /\ rtRet = [resp |-> NoResp, err |-> NoErr]
  /\ rtCalls = 0
  /\ rtWaits = 0
  /\ rtAllRetry = TRUE
  /\ rtClosed = {}
  /\ InitPipe("test")
  /\ InitIdleCB

\* withRetry returns r
WithRetryReturns(r) ==
  /\ rtPc' = "done"
  /\ rtRet' = r
  /\ rtBackoff' = 0
  /\ rtTimer' = FALSE
  /\ UNCHANGED <<rtConfig, rtAttempt, rtCtxDone>>

\* one pass of the loop of withRetry: the loop condition, the call of the
\* delivery function, and the return or the start of the backoff wait
WithRetryCall ==
  /\ rtPc = "loop"
  /\ IF ~LoopCond(rtAttempt, rtConfig)
     THEN /\ WithRetryReturns(TerminalRet(rtResp, rtErr))
          /\ UNCHANGED <<rtResp, rtErr, rtCalls, rtWaits, rtAllRetry>>
     ELSE \E o \in RetryOutcomes(rtCalls + 1) :
            LET resp == IF o.err THEN NoResp
                        ELSE [nil |-> FALSE, status |-> o.status, call |-> o.call]
                err == IF o.err
                       THEN [nil |-> FALSE, kind |-> "transport", call |-> o.call]
                       ELSE NoErr
            IN /\ rtCalls' = rtCalls + 1
               /\ rtResp' = resp
               /\ rtErr' = err
               /\ rtAllRetry' = (rtAllRetry /\ shouldRetry(o))
               /\ IF ~shouldRetry(o)
                  THEN WithRetryReturns(TerminalRet(resp, err)) /\ UNCHANGED rtWaits
                  ELSE IF rtAttempt = rtConfig.MaxRetries
                  THEN WithRetryReturns(ExhaustedRet(resp, err)) /\ UNCHANGED rtWaits
                  ELSE /\ \E k \in 0..(JitterSteps - 1) :
                            rtBackoff' = calculateBackoff(rtAttempt, rtConfig, k)
                       /\ rtTimer' = FALSE
                       /\ rtPc' = "wait"
                       /\ rtWaits' = rtWaits + 1
                       /\ UNCHANGED <<rtConfig, rtAttempt, rtCtxDone, rtRet>>
  /\ UNCHANGED <<cb, now, cbOnly, pipeVars, rtClosed>>

\* the backoff elapses: the channel of time.After becomes ready
WithRetryTimer ==
  /\ rtPc = "wait"
  /\ ~rtTimer
  /\ rtTimer' = TRUE
  /\ UNCHANGED <<rtConfig, rtPc, rtAttempt, rtResp, rtErr, rtBackoff, rtCtxDone,
                 rtRet, rtCalls, rtWaits, rtAllRetry, rtClosed>>
  /\ UNCHANGED <<cb, now, cbOnly, pipeVars>>

\* withRetry's select takes <-time.After(backoff): resp.Body.Close() when
\* there is a response, then on to the next attempt
WithRetryElapsed ==
  /\ rtPc = "wait"
  /\ rtTimer
  /\ rtClosed' = IF rtResp.nil THEN rtClosed ELSE rtClosed \cup {rtResp.call}
  /\ rtAttempt' = rtAttempt + 1
  /\ rtPc' = "loop"
  /\ rtBackoff' = 0
  /\ rtTimer' = FALSE
  /\ UNCHANGED <<rtConfig, rtResp, rtErr, rtCtxDone, rtRet, rtCalls, rtWaits,
                 rtAllRetry>>
  /\ UNCHANGED <<cb, now, cbOnly, pipeVars>>

\* withRetry's select takes <-ctx.Done(): return nil, ctx.Err()
WithRetryCancelled ==
  /\ rtPc = "wait"
  /\ rtCtxDone
  /\ WithRetryReturns(CancelRet(rtResp))
  /\ UNCHANGED <<rtResp, rtErr, rtCalls, rtWaits, rtAllRetry, rtClosed>>
  /\ UNCHANGED <<cb, now, cbOnly, pipeVars>>

\* the caller cancels the context while withRetry runs
CancelCtx ==
  /\ rtPc \in {"loop", "wait"}
  /\ ~rtCtxDone
  /\ rtCtxDone' = TRUE
  /\ UNCHANGED <<rtConfig, rtPc, rtAttempt, rtResp, rtErr, rtBackoff, rtTimer,
                 rtRet, rtCalls, rtWaits, rtAllRetry, rtClosed>>
  /\ UNCHANGED <<cb, now, cbOnly, pipeVars>>

NextRetry ==
  \/ WithRetryCall
  \/ WithRetryTimer
  \/ WithRetryElapsed
  \/ WithRetryCancelled
  \/ CancelCtx

SpecRetry == InitRetry /\ [][NextRetry]_vars

(* ================================ claims =============================== *)
\* how often record r occurs in batch b
Occ(b, r) == Cardinality({j \in 1..Len(b) : b[j] = r})

\* the invocations of the flush function whose batch holds record r
InvocationsWith(r) == {i \in 1..Len(calls) : Occ(calls[i].batch, r) > 0}

\* a Stop (a Close on a client) that did the shutdown has returned in goroutine p
StopReturned(p) == pc[p] = "done" /\ ~late[p]

\* C1: once Stop has returned, every record whose Add returned nil was passed
\* to the flush function in exactly one invocation, exactly once in it, and the
\* buffer is empty; whatever the interleaving of Add with size-triggered,
\* timer-triggered and manual flushes before it (no manual Flush still stands
\* between its detach and its invocation of the flush function).
C1_StopFlushedEachRecordOnce ==
  \A p \in Closers :
    (StopReturned(p) /\ pc[Flusher] # "call") =>
      /\ Len(logs) = 0
      /\ \A r \in accepted :
           /\ Cardinality(InvocationsWith(r)) = 1
           /\ \A i \in InvocationsWith(r) : Occ(calls[i].batch, r) = 1

\* C1 witness: Stop has returned after all records were accepted, the worker
\* flushed a first batch and Stop's final flush the rest.
C1_Witness ==
  /\ \E p \in Closers : StopReturned(p)
  /\ nextId > MaxRecords
  /\ Len(calls) = 2
  /\ calls[1].by = Worker
  /\ calls[2].by \in Closers

\* C2: graceful shutdown loses no record: if every delivery made with a live
\* context succeeded and the breaker was closed at every gate check, then when
\* Close() has returned nil (the deadline of the final flush did not pass)
\* every accepted record has been delivered successfully exactly once (also
\* when Client.Flush is never used, so that only the worker and Stop's final
\* flush detach).
C2_CloseDeliversEveryRecord ==
  \A p \in Closers :
    ( /\ flushFunc = "sendBatch"
      /\ StopReturned(p)
      /\ ret[p] = "nil"
      /\ envOK
      /\ \A i \in 1..Len(calls) : calls[i].by # Flusher )
    => \A r \in accepted : delivered[r] = 1

\* C3: once Close() / Stop() has set the closed flag, every later submit
\* returns ErrClientClosed and leaves the buffer, the size signal and the set of
\* accepted records unchanged; the flags are never cleared, and no submit that
\* passed the closed check is still on its way to the buffer when a flag is set.
C3_NoSubmitAfterClose ==
  /\ [](inAdd # <<>> => ~closed /\ ~stopped)
  /\ [][ /\ (closed => closed')
         /\ (stopped => stopped')
         /\ ((ClientLog /\ closed) \/ (BatcherAdd /\ stopped)) =>
              /\ submitRet' = "ErrClientClosed"
              /\ UNCHANGED <<logs, flushChan, nextId, inAdd>> ]_vars

\* C3 witness: a submit was refused after shutdown began.
C3_Witness ==
  /\ closed \/ stopped
  /\ submitRet = "ErrClientClosed"
  /\ nextId > 1

\* C4: Close() / Stop() is idempotent: a call that finds the flag set returns
\* nil at once and changes neither the buffer nor the breaker nor the flags,
\* it never invokes the flush function, and the calls of Close / Stop together
\* run at most one (final) flush invocation.
C4_CloseIdempotent ==
  [][ \A p \in Closers :
        /\ ((CloseLocked(p) /\ closed) \/ (StopEnter(p) /\ stopped)) =>
             /\ pc'[p] = "done"
             /\ ret'[p] = "nil"
             /\ UNCHANGED <<logs, flushChan, cb, calls, closed, stopped, ctxDone>>
        /\ late'[p] => \A i \in 1..Len(calls') : calls'[i].by # p
        /\ Cardinality({i \in 1..Len(calls') : calls'[i].by \in Closers}) <= 1 ]_vars

\* C4 witness: one call did the shutdown with its final flush, the other found
\* the flag set and returned nil.
C4_Witness ==
  \E p, q \in Closers :
    /\ StopReturned(p)
    /\ \E i \in 1..Len(calls) : calls[i].by = p
    /\ late[q] /\ pc[q] = "done" /\ ret[q] = "nil"

\* C5: Flush() on an empty buffer returns nil without invoking the flush
\* function, whoever calls it; the flush function is never invoked with an
\* empty batch.
C5_EmptyFlushIsNoOp ==
  [][ /\ \A p \in Procs :
           (FlushDetach(p) /\ Len(logs) = 0) =>
             /\ calls' = calls
             /\ pc'[p] \notin {"call", "run", "post", "backoff", "recorded"}
             /\ p # Worker => ret'[p] = "nil"
      /\ \A i \in 1..Len(calls') : Len(calls'[i].batch) > 0 ]_vars

\* C5 witness: the final flush of Stop found the buffer empty after a size
\* signal had gone stale, and returned nil without an invocation by it.
C5_Witness ==
  \E p \in Closers :
    /\ StopReturned(p)
    /\ ret[p] = "nil"
    /\ flushChan
    /\ nextId > 1
    /\ \A i \in 1..Len(calls) : calls[i].by # p

\* C6: Flush() on a non-empty buffer detaches the whole buffer in one step,
\* invokes the flush function exactly once with exactly the detached records,
\* and returns what that invocation returned; if no Add ran meanwhile the
\* buffer is empty when Flush returns, also when the flush function failed.
C6_FlushDetachesAndReturnsResult ==
  [][ \A p \in Procs :
        /\ (FlushDetach(p) /\ Len(logs) > 0) =>
             /\ batch'[p] = logs
             /\ logs' = <<>>
             /\ pc'[p] = "call"
        /\ pc'[p] = "call" => \A i \in 1..Len(calls') : calls'[i].batch # batch'[p]
        /\ pc'[p] \in {"run", "post", "backoff", "recorded"} =>
             Cardinality({i \in 1..Len(calls') :
                            calls'[i].batch = batch'[p] /\ calls'[i].by = p}) = 1
        /\ (p \in InFlush /\ pc'[p] \notin InFlushPcs) =>
             /\ p # Worker => ret'[p] = fnRet'[p]
             /\ ~dirty[p] => Len(logs') = 0 ]_vars

\* C6 witness: a manual Flush of a non-empty buffer has returned the error of
\* the flush function and the buffer is empty.
C6_Witness ==
  /\ pc[Flusher] = "idle"
  /\ ret[Flusher] \notin {"nil", "none", "ErrClientClosed"}
  /\ ret[Flusher] = fnRet[Flusher]
  /\ \E i \in 1..Len(calls) : calls[i].by = Flusher
  /\ Len(logs) = 0

\* record r has been handed to the flush function
Flushed(r) == InvocationsWith(r) # {}

\* C7: every accepted record is eventually handed to the flush function, also
\* when the size threshold is never reached and Flush is never called: the
\* worker flushes on timer ticks and keeps serving after a failed flush.
C7_AcceptedEventuallyFlushed ==
  \A r \in 1..MaxRecords : (r \in accepted) ~> Flushed(r)

\* C7 witness: the worker, on a timer tick, handed over a batch below the size
\* threshold after an earlier invocation of the flush function.
C7_Witness ==
  /\ Len(calls) >= 2
  /\ calls[Len(calls)].by = Worker
  /\ calls[Len(calls)].trig = "tick"
  /\ Len(calls[Len(calls)].batch) < maxSize
  /\ pc[Flusher] = "idle"
  /\ \A p \in Closers : pc[p] = "idle"

\* C8: starting closed with counter 0 and threshold T: after fewer than T
\* consecutive RecordFailure calls the breaker is closed and Allow() succeeds;
\* the T-th leaves it open with Failures() = T, and Allow() then returns
\* ErrCircuitOpen while the open-duration has not elapsed.
C8_OpensAtThreshold ==
  [][ /\ (cleanRun' >= 0 /\ cleanRun' < cb'.failureThreshold) =>
           /\ cb'.state = CircuitClosed
           /\ cbRet'.op = "Allow" => cbRet'.val = "nil"
      /\ (CBRecordFailure /\ cleanRun' = cb'.failureThreshold) =>
           /\ cb'.state = CircuitOpen
           /\ cb'.failures = cb'.failureThreshold
      /\ ( /\ CBAllow
           /\ cleanRun = cb.failureThreshold
           /\ cb.state = CircuitOpen
           /\ now - cb.lastStateChange < cb.timeout ) =>
           cbRet'.val = "ErrCircuitOpen" ]_vars

\* C8 witness: Allow() was refused right after a run of exactly T > 1 failures.
C8_Witness ==
  /\ cb.failureThreshold > 1
  /\ cleanRun = cb.failureThreshold
  /\ cb.failures = cb.failureThreshold
  /\ cb.state = CircuitOpen
  /\ cbRet = [op |-> "Allow", val |-> "ErrCircuitOpen"]

\* C9: open -> half-open happens only inside Allow(): before the open-duration
\* has passed Allow() returns ErrCircuitOpen and changes nothing, from the
\* open-duration on it succeeds and leaves the breaker half-open; the clock
\* and the accessors State / Failures change nothing.
C9_HalfOpenOnlyInAllow ==
  [][ /\ (cb.state = CircuitOpen /\ cb'.state = CircuitHalfOpen) =>
           /\ cbRet' = [op |-> "Allow", val |-> "nil"]
           /\ now - cb.lastStateChange >= cb.timeout
      /\ (CBAllow /\ cb.state = CircuitOpen /\ now - cb.lastStateChange < cb.timeout) =>
           /\ cbRet'.val = "ErrCircuitOpen"
           /\ cb' = cb
      /\ (CBAllow /\ cb.state = CircuitOpen /\ now - cb.lastStateChange >= cb.timeout) =>
           /\ cbRet'.val = "nil"
           /\ cb'.state = CircuitHalfOpen
      /\ (CBState \/ CBFailures \/ AdvanceTime) => cb' = cb ]_vars

\* C9 witness: an Allow() made exactly one open-duration after the breaker
\* opened has succeeded and left it half-open.
C9_Witness ==
  /\ cb.state = CircuitHalfOpen
  /\ cbRet = [op |-> "Allow", val |-> "nil"]
  /\ cb.lastStateChange = now
  /\ cb.lastFailureTime = now - cb.timeout

\* C10: RecordSuccess() on a half-open breaker closes it with counter 0; the
\* next Allow() succeeds, and the breaker stays closed until T more failures
\* have been recorded.
C10_HalfOpenSuccessCloses ==
  [][ /\ (CBRecordSuccess /\ cb.state = CircuitHalfOpen) =>
           /\ cb'.state = CircuitClosed
           /\ cb'.failures = 0
      /\ (hoRun' >= 0 /\ hoRun' < cb'.failureThreshold) =>
           /\ cb'.state = CircuitClosed
           /\ cbRet'.op = "Allow" => cbRet'.val = "nil" ]_vars

\* C10 witness: after a half-open success the breaker opened again, at the
\* T-th of T > 1 consecutive new failures.
C10_Witness ==
  /\ cb.failureThreshold > 1
  /\ hoRun = cb.failureThreshold
  /\ cb.failures = cb.failureThreshold
  /\ cb.state = CircuitOpen
  /\ cbRet.op = "RecordFailure"

\* C11: RecordFailure() on a half-open breaker opens it at once, whatever the
\* counter and the threshold, and restarts the open-duration: every Allow()
\* made less than a full open-duration after that failure returns
\* ErrCircuitOpen and changes nothing.
C11_HalfOpenFailureReopens ==
  [][ /\ (CBRecordFailure /\ cb.state = CircuitHalfOpen) =>
           /\ cb'.state = CircuitOpen
           /\ cb'.lastStateChange = now
      /\ (CBAllow /\ hoFail >= 0 /\ now - hoFail < cb.timeout) =>
           /\ cbRet'.val = "ErrCircuitOpen"
           /\ cb' = cb ]_vars

\* C11 witness: a half-open breaker whose counter was below the threshold
\* failed, and an Allow() at the last instant before the restarted
\* open-duration ends, later than the first open-duration, was refused.
C11_Witness ==
  /\ hoFail >= 0
  /\ cb.failures < cb.failureThreshold
  /\ now = hoFail + cb.timeout - 1
  /\ now > hoFail
  /\ cbRet = [op |-> "Allow", val |-> "ErrCircuitOpen"]

\* C12: RecordSuccess() sets the counter to 0 in every state and changes the
\* state only from half-open; a breaker that started closed and has not seen
\* T RecordFailure calls in a row (no RecordSuccess between them) is closed.
C12_OnlyConsecutiveFailuresOpen ==
  [][ /\ CBRecordSuccess =>
           /\ cb'.failures = 0
           /\ cb.state # CircuitHalfOpen => cb'.state = cb.state
           /\ cb.state = CircuitHalfOpen => cb'.state = CircuitClosed
      /\ ~tripped' => cb'.state = CircuitClosed ]_vars

\* C12 witness: below the threshold (T > 1) a failure was recorded at this
\* instant and the RecordSuccess() after it has zeroed the counter, the breaker
\* staying closed.
C12_Witness ==
  /\ cb.failureThreshold > 1
  /\ ~tripped
  /\ cbRet.op = "RecordSuccess"
  /\ cb.lastFailureTime = now
  /\ cb.failures = 0
  /\ streak = 0
  /\ cb.state = CircuitClosed

\* C13: Reset() from any state and any counter yields closed with counter 0,
\* the Allow() after it succeeds, and a second Reset() leaves the same state
\* and counter as the first.
C13_ResetCloses ==
  [][ /\ CBReset =>
           /\ cb'.state = CircuitClosed
           /\ cb'.failures = 0
      /\ (CBAllow /\ cbRet.op = "Reset") =>
           /\ cbRet'.val = "nil"
           /\ cb'.state = CircuitClosed
      /\ (CBReset /\ cbRet.op = "Reset") =>
           /\ cb'.state = cb.state
           /\ cb'.failures = cb.failures ]_vars

\* C13 witness: with threshold 1 a failure recorded at this very instant had
\* the breaker open with counter above 0, and Reset() has closed it.
C13_Witness ==
  /\ cb.failureThreshold = 1
  /\ cb.lastFailureTime = now
  /\ cbRet.op = "Reset"
  /\ cb.state = CircuitClosed
  /\ cb.failures = 0

\* C14: withRetry never invokes the delivery function more than MaxRetries + 1
\* times; with MaxRetries = M >= 0, no cancellation and a retryable outcome on
\* every call, it has invoked it exactly M + 1 times when it returns.
C14_ExactlyMaxRetriesPlusOneCalls ==
  /\ rtConfig.MaxRetries >= 0 => rtCalls <= rtConfig.MaxRetries + 1
  /\ ( /\ rtPc = "done"
       /\ rtConfig.MaxRetries >= 0
       /\ ~rtCtxDone
       /\ rtAllRetry ) => rtCalls = rtConfig.MaxRetries + 1

\* C14 witness: withRetry has returned without cancellation after M + 1 >= 3
\* calls that all gave retryable outcomes.
C14_Witness ==
  /\ rtPc = "done"
  /\ ~rtCtxDone
  /\ rtAllRetry
  /\ rtConfig.MaxRetries >= 2
  /\ rtCalls = rtConfig.MaxRetries + 1

\* the statuses the spec calls transient
TransientStatuses == {429, 500, 502, 503, 504}

\* C15: withRetry stops at the first outcome that is not retryable and returns
\* it unchanged: when call R + 1 (after R retryable ones, R <= MaxRetries)
\* yields a response with a status outside 429/500/502/503/504, withRetry
\* returns that response with a nil error after exactly R + 1 invocations and
\* R backoff waits (none for R = 0).
C15_StopsAtFirstTerminalOutcome ==
  [][ ( /\ WithRetryCall
        /\ rtCalls' = rtCalls + 1
        /\ ~rtResp'.nil
        /\ rtResp'.status \notin TransientStatuses ) =>
        /\ rtPc' = "done"
        /\ rtRet' = [resp |-> rtResp', err |-> NoErr]
        /\ rtRet'.resp.call = rtCalls'
        /\ rtCalls' = rtAttempt + 1
        /\ rtWaits' = rtAttempt ]_vars

\* C15 witness: after one retryable outcome and one backoff wait the second
\* call answered 404, and withRetry returned that response with a nil error.
C15_Witness ==
  /\ rtPc = "done"
  /\ rtCalls = 2
  /\ rtWaits = 1
  /\ rtRet = [resp |-> [nil |-> FALSE, status |-> 404, call |-> 2], err |-> NoErr]

\* C16: when withRetry leaves its wait between two attempts with the context
\* cancelled and the backoff not yet elapsed, it returns a nil response and the
\* context's error; the delivery function is not invoked again.
C16_CancelDuringBackoff ==
  [][ /\ (rtPc = "wait" /\ rtCtxDone /\ ~rtTimer /\ rtPc' # "wait") =>
           /\ rtPc' = "done"
           /\ rtRet'.resp = NoResp
           /\ rtRet'.err.kind = "context canceled"
           /\ rtCalls' = rtCalls
      /\ rtPc = "done" => (rtPc' = "done" /\ rtCalls' = rtCalls) ]_vars

\* C16 witness: the context was cancelled during the first wait, after a
\* response, with further attempts left; withRetry returned nil and the
\* context's error after that one invocation.
C16_Witness ==
  /\ rtPc = "done"
  /\ rtCalls = 1
  /\ rtConfig.MaxRetries >= 1
  /\ ~rtResp.nil
  /\ rtRet.resp = NoResp
  /\ rtRet.err.kind = "context canceled"

\* C17: an outcome is retried iff it is a transport error (no response) or a
\* response with status 429, 500, 502, 503 or 504; every other status ends
\* withRetry with that response.
C17_RetryPredicate ==
  [][ (WithRetryCall /\ rtCalls' = rtCalls + 1 /\ rtAttempt < rtConfig.MaxRetries) =>
        /\ (rtPc' = "wait") <=> (~rtErr'.nil \/ rtResp'.status \in TransientStatuses)
        /\ (rtPc' # "wait") =>
             (rtPc' = "done" /\ rtRet' = [resp |-> rtResp', err |-> NoErr]) ]_vars

\* C17 witness: with attempts left, a 501 answer ended withRetry.
C17_Witness ==
  /\ rtPc = "done"
  /\ rtAttempt < rtConfig.MaxRetries
  /\ rtRet.resp.status = 501

\* C18: when all MaxRetries + 1 attempts gave retryable outcomes, withRetry
\* returns the outcome of the last attempt: its response with a nil error, or,
\* for a transport error, a nil response and that error wrapped as 'max
\* retries exceeded'.
C18_ExhaustionReturnsLastOutcome ==
  ( /\ rtPc = "done"
    /\ rtConfig.MaxRetries >= 0
    /\ rtAllRetry
    /\ rtCalls = rtConfig.MaxRetries + 1 ) =>
    IF rtErr.nil
    THEN /\ rtRet = [resp |-> rtResp, err |-> NoErr]
         /\ rtRet.resp.call = rtConfig.MaxRetries + 1
         /\ rtRet.resp.status \in TransientStatuses
    ELSE /\ rtRet.resp = NoResp
         /\ rtRet.err = [nil |-> FALSE, kind |-> "max retries exceeded",
                         call |-> rtConfig.MaxRetries + 1]

\* C18 witness: the last of M + 1 >= 2 retryable attempts answered 503 and
\* withRetry returned that response.
C18_Witness ==
  /\ rtPc = "done"
  /\ rtAllRetry
  /\ rtConfig.MaxRetries >= 1
  /\ rtCalls = rtConfig.MaxRetries + 1
  /\ rtRet.resp.status = 503
  /\ rtRet.resp.call = rtCalls

\* min * 2^a capped at max, written out
C19_Capped(a, mn, mx) == IF mn * Pow2(a) < mx THEN mn * Pow2(a) ELSE mx

\* C19: calculateBackoff(a) = c + j with c = minimum(min * 2^a, max) and
\* 0 <= j <= c / 4: at least c, at most 1.25 * c, never above 1.25 * max; and c
\* does not decrease when a grows.
C19_BackoffBounds ==
  /\ rtPc = "wait" =>
       LET c == C19_Capped(rtAttempt, rtConfig.MinBackoff, rtConfig.MaxBackoff)
       IN /\ rtBackoff >= c
          /\ 4 * (rtBackoff - c) <= c
          /\ 4 * rtBackoff <= 5 * rtConfig.MaxBackoff
  /\ \A a \in 0..(MaxMaxRetries + 1) :
       /\ cappedBackoff(a, rtConfig) =
            C19_Capped(a, rtConfig.MinBackoff, rtConfig.MaxBackoff)
       /\ cappedBackoff(a, rtConfig) <= cappedBackoff(a + 1, rtConfig)

\* C19 witness: withRetry waits a backoff that was capped at max and carries
\* jitter.
C19_Witness ==
  /\ rtPc = "wait"
  /\ rtConfig.MinBackoff * Pow2(rtAttempt) > rtConfig.MaxBackoff
  /\ rtBackoff > rtConfig.MaxBackoff

\* C20: a submit never waits for network I/O: whenever a delivery is in
\* progress, a submit that has started can take the client's lock and complete.
C20_SubmitNeverWaitsForDelivery == Delivering => ~SubmitBlocked

\* C21: a submit whose record fails validation (empty message or a level
\* outside validLogLevels) on an open client returns the validation error of the
\* first failing field and changes nothing: the buffer, the size signal, the
\* breaker, the identities handed out, the invocations of the flush function and
\* what was delivered stay as they were, and no goroutine moves.
C21_ValidationFailureChangesNothing ==
  [][\A level \in {"info", "invalid"}, message \in {"", "m"} :
       (ClientLogWith(level, message) /\ ~closed
          /\ (message = "" \/ level \notin {"debug", "info", "warn", "error", "critical"}))
       => /\ submitRet' = IF message = "" THEN "ValidationError:message"
                          ELSE "ValidationError:level"
          /\ UNCHANGED <<logs, flushChan, cb, nextId, calls, delivered, pc, batch>>]_vars

\* C21 witness: a submit returned a validation error while a record is
\* buffered and the failure counter is not zero.
C21_Witness ==
  /\ submitRet \in {"ValidationError:message", "ValidationError:level"}
  /\ cb.failures > 0
  /\ logs = <<1>>
  /\ nextId = 2

\* the errors that Client.sendBatch returns
DeliveryErrors ==
  {"invalid batch", "ErrCircuitOpen", "failed to send batch", "HTTPError",
   "failed to decode response"}

\* C22: a submit returns only nil, a validation error or ErrClientClosed. A
\* delivery error reaches a caller only as the result of that caller's own
\* Flush(ctx) or of the final flush of its Close(); when the flush function
\* returns in the background worker, no caller's result changes.
C22_DeliveryErrorsOnlyFromFlush ==
  /\ [](submitRet \in {"none", "nil", "ValidationError:message",
                       "ValidationError:level", "ErrClientClosed"})
  /\ [][/\ \A q \in Procs :
             (ret'[q] # ret[q] /\ ret'[q] \in DeliveryErrors)
             => q \in {Flusher} \cup Closers /\ pc[q] \in InFlushPcs /\ pc'[q] \notin InFlushPcs
        /\ (pc[Worker] \in InFlushPcs /\ pc'[Worker] \notin InFlushPcs)
             => UNCHANGED <<ret, fnRet, submitRet>>]_vars

\* C22 witness: the worker's size-triggered flush has failed and counted in the
\* breaker, while the submits returned nil and no Flush or Close has returned.
C22_Witness ==
  /\ flushFunc = "sendBatch"
  /\ cb.failures > 0
  /\ Len(calls) = 1 /\ calls[1].by = Worker /\ calls[1].trig = "size"
  /\ pc[Worker] = "select"
  /\ submitRet = "nil"
  /\ \A q \in Procs : ret[q] = "none"

\* C23: every batch handed to the flush function holds at most maxSize
\* records, and no goroutine holds a detached batch larger than that.
C23_BatchAtMostMaxSize ==
  /\ \A i \in 1..Len(calls) : Len(calls[i].batch) <= maxSize
  /\ \A p \in Procs : Len(batch[p]) <= maxSize

\* the invocations of the flush function made for a size signal
SizeTriggered == {i \in 1..Len(calls) : calls[i].trig = "size"}

\* C25: a burst of BurstRecords submissions (all accepted) followed by Stop,
\* with no tick in between: once Stop has returned there were at least
\* (BurstRecords - 1) \div maxSize size-triggered invocations of the flush
\* function, together they hold that many full batches of the first records, and
\* the last record was handed over by the final flush of Stop.
C25_BurstFlushedBySize ==
  (nextId = BurstRecords + 1 /\ \E p \in Closers : StopReturned(p))
  => LET k == (BurstRecords - 1) \div maxSize
     IN /\ Cardinality(SizeTriggered) >= k
        /\ {r \in 1..BurstRecords : \E i \in SizeTriggered : Occ(calls[i].batch, r) > 0}
             = 1..(k * maxSize)
        /\ \E i \in 1..Len(calls) :
             calls[i].by \in Closers /\ Occ(calls[i].batch, BurstRecords) > 0

\* the records of a buffer or batch
Records(b) == {b[i] : i \in 1..Len(b)}

\* C24: records keep submission order (a record's identity is its rank among
\* the accepted Adds): whenever a Flush detaches a batch, the batch lists its
\* records in the order their Adds appended them, and every record detached
\* before it was accepted earlier than each of its records; the flush function
\* is handed the batch in that order.
C24_SubmissionOrderKept ==
  /\ [](\A i \in 1..Len(calls) : \A j, k \in 1..Len(calls[i].batch) :
          j < k => calls[i].batch[j] < calls[i].batch[k])
  /\ [][\A p \in Procs :
          (batch[p] = <<>> /\ batch'[p] # <<>>)
          => /\ \A j, k \in 1..Len(batch'[p]) : j < k => batch'[p][j] < batch'[p][k]
             /\ \A r \in accepted \ Records(logs) :
                  \A j \in 1..Len(batch'[p]) : r < batch'[p][j]]_vars

\* C24 witness: a manual Flush has handed a batch of two records, in the order
\* of their Adds, to the flush function.
C24_Witness ==
  /\ Len(calls) = 1
  /\ calls[1].batch = <<1, 2>>
  /\ calls[1].by = Flusher

\* C26: a record leaves the pipeline only by hand-off to the delivery
\* function: when sendBatch returns without having invoked the delivery function
\* (the breaker refused the batch with ErrCircuitOpen, or the batch was invalid),
\* the records of the batch are in the buffer again, to be taken by a later flush.
C26_RefusedBatchStaysBuffered ==
  [][\A p \in Procs :
       (flushFunc = "sendBatch" /\ pc[p] = "call" /\ pc'[p] \notin InFlushPcs)
       => Records(batch[p]) \subseteq Records(logs')]_vars

\* Allow()'s refusal, written out: open and the open-duration has not elapsed
C27_Refuses == cb.state = CircuitOpen /\ now - cb.lastStateChange < cb.timeout

\* C27: the breaker gates whole batches. A sendBatch enters the retry executor
\* only past a gate that admits it; a refused sendBatch returns ErrCircuitOpen
\* with no delivery made and the breaker untouched; while the executor makes its
\* attempts and waits, the goroutine leaves the breaker untouched; when the
\* executor has returned, exactly one RecordSuccess or RecordFailure is applied,
\* so the failure counter grows by at most 1 for one batch, and sendBatch then
\* reads the response and returns without another breaker call; and nothing
\* else changes the breaker.
C27_BreakerGatesBatches ==
  [][/\ \A p \in Procs :
          /\ (pc[p] = "call" /\ pc'[p] = "post") => ~C27_Refuses
          /\ (pc[p] = "call" /\ pc'[p] # "call" /\ C27_Refuses)
               => /\ pc'[p] \notin InFlushPcs
                  /\ p # Worker => fnRet'[p] = "ErrCircuitOpen"
                  /\ cb' = cb
                  /\ delivered' = delivered
          /\ (pc[p] \in {"post", "backoff"} /\ pc'[p] \in {"post", "backoff"}
                /\ pc'[p] # pc[p])
               => cb' = cb
          /\ (pc[p] \in {"post", "backoff"} /\ pc'[p] \notin {"post", "backoff"})
               => /\ pc'[p] = "recorded"
                  /\ cb' \in {RecordSuccess(cb, now), RecordFailure(cb, now)}
                  /\ cb'.failures <= cb.failures + 1
          /\ (pc[p] = "recorded" /\ pc'[p] # "recorded")
               => /\ pc'[p] \notin InFlushPcs
                  /\ cb' = cb
          /\ pc'[p] = "recorded" => pc[p] \in {"post", "backoff", "recorded"}
     /\ cb' # cb
          => \E p \in Procs :
               \/ pc[p] = "call" /\ pc'[p] = "post"
               \/ pc[p] \in {"post", "backoff"} /\ pc'[p] = "recorded"]_vars

\* C27 witness: the only batch so far went through a retry and failed; the
\* breaker is closed with one failure counted.
C27_Witness ==
  /\ Len(calls) = 1
  /\ fnRet[Flusher] = "failed to send batch"
  /\ cb.state = CircuitClosed
  /\ cb.failures = 1
  /\ pc[Flusher] = "idle"

\* C28: the half-open trial is one-shot. The breaker is half-open exactly from
\* the Allow() that admitted the trial until the trial's outcome is recorded, so
\* a sendBatch that reaches the gate while the breaker is half-open is not
\* admitted to the retry executor.
C28_HalfOpenAdmitsOneTrial ==
  [][\A p \in Procs :
       (pc[p] = "call" /\ cb.state = CircuitHalfOpen) => pc'[p] # "post"]_vars

\* goroutines inside an invocation of the flush function
InFlushFunc == {p \in Procs : pc[p] \in {"run", "post", "backoff", "recorded"}}

\* C29: batch delivery is not parallel: at most one invocation of the flush
\* function is in progress at any time, and the flush function is invoked on
\* the batches in the order in which they were detached (a batch detached
\* earlier holds earlier records).
C29_OneFlushFunctionAtATime ==
  /\ Cardinality(InFlushFunc) <= 1
  /\ \A i, j \in 1..Len(calls) :
       (i < j /\ calls[i].batch # <<>> /\ calls[j].batch # <<>>)
       => calls[i].batch[1] < calls[j].batch[1]

InFinalFlush == {p \in Closers : pc[p] \in {"flush", "locked"} \cup InFlushPcs}

\* C31: Stop keeps its order. A Stop that cancels has set the stopped flag, one
\* that waits has cancelled, and one that runs its final Flush has seen the
\* worker terminate: no Flush of the worker overlaps or follows the final Flush.
\* The flush function is invoked at most once by Stop, never by the worker after
\* that invocation or after a Stop that did the shutdown has returned, and Stop
\* returns what its final Flush returned.
C31_StopOrder ==
  /\ [](\A p \in Closers :
          /\ pc[p] = "cancel" => stopped
          /\ pc[p] = "wait" => stopped /\ ctxDone
          /\ p \in InFinalFlush => stopped /\ ctxDone /\ pc[Worker] = "exited"
          /\ StopReturned(p)
               => /\ pc[Worker] = "exited"
                  /\ ret[p] = IF fnRet[p] = "none" THEN "nil" ELSE fnRet[p])
  /\ [](/\ Cardinality({i \in 1..Len(calls) : calls[i].by \in Closers}) <= 1
        /\ \A i, j \in 1..Len(calls) :
             (i < j /\ calls[i].by \in Closers) => calls[j].by # Worker)
  /\ [][(\E p \in Closers : StopReturned(p) \/ p \in InFinalFlush)
          => \A i \in 1..Len(calls') : i > Len(calls) => calls'[i].by # Worker]_vars

\* C31 witness: the worker flushed one batch and has terminated, and the final
\* Flush of Stop is inside the flush function with the rest.
C31_Witness ==
  /\ Len(calls) = 2
  /\ calls[1].by = Worker
  /\ calls[2].by \in Closers
  /\ \E p \in Closers : pc[p] = "run" /\ batch[p] = <<2>>
  /\ pc[Worker] = "exited"

\* C32: a size trigger is never lost in effect. Whenever the buffer holds
\* maxSize records or more while the worker is running, a signal is pending in
\* the one-slot channel or the worker has taken one and has not yet detached; and
\* with no tick at all, every record of a buffer that reached maxSize is handed
\* to the flush function (by the worker, or by the final flush of a Stop that
\* cancelled the worker first).
C32_SizeTriggerNotLost ==
  /\ []((Len(logs) >= maxSize /\ pc[Worker] # "exited")
          => (flushChan \/ (pc[Worker] \in {"flush", "locked"} /\ trig = "size")))
  /\ \A r \in 1..BurstRecords :
       (Len(logs) >= maxSize /\ r \in Records(logs)) ~> Flushed(r)

\* C32 witness: the buffer crossed the threshold a second time while the
\* signal of the first crossing was still pending, so the second send was dropped.
C32_Witness ==
  /\ Len(logs) > maxSize
  /\ flushChan
  /\ pc[Worker] = "select"
  /\ calls = <<>>
  /\ ~stopped

\* C33: the 1000-record bound is enforced by sendBatch's validation, before
\* the gate. A sendBatch on a detached batch of more than 1000 records returns
\* the validation error whatever the breaker's state, with the breaker untouched
\* and nothing delivered and the retry executor not entered; the accumulator
\* accepts a valid submit whatever the buffer's length and Flush detaches the
\* whole buffer however long.
C33_BatchBoundAtValidation ==
  [][/\ \A p \in Procs :
          /\ (pc[p] = "call" /\ Len(batch[p]) > 1000 /\ pc'[p] # "call")
               => /\ pc'[p] \notin InFlushPcs
                  /\ p # Worker => fnRet'[p] = "invalid batch"
                  /\ cb' = cb
                  /\ delivered' = delivered
          /\ (pc[p] = "locked" /\ pc'[p] = "call") => batch'[p] = logs /\ logs' = <<>>
     /\ ClientLogUpTo(MaxBatchLen + 1, "info", "m")
          => inAdd' = <<NewLog("info", "m")>> /\ submitRet' = "none"
     /\ ClientLogAdd => submitRet' = "nil" /\ logs' = Append(logs, nextId)]_vars

\* C33 witness: a manual Flush detached 1001 records and got the validation
\* error while the breaker was open.
C33_Witness ==
  /\ Len(calls) = 1
  /\ Len(calls[1].batch) = 1001
  /\ fnRet[Flusher] = "invalid batch"
  /\ cb.state = CircuitOpen

\* C34: inside withRetry every response is released or returned. When the
\* loop is about to invoke the delivery function again, the body of the response
\* of the attempt before has been closed; and when withRetry has returned, the
\* response of the last attempt made has not been closed by withRetry and is the
\* response it returned.
C34_ResponseReleasedOrReturned ==
  /\ (rtPc = "loop" /\ ~rtResp.nil) => rtResp.call \in rtClosed
  /\ (rtPc = "done" /\ ~rtResp.nil)
       => rtResp.call \notin rtClosed /\ rtRet.resp = rtResp

\* C35: for every batch that passes the gate the breaker outcome matches the
\* flush result: when sendBatch returns to a caller's Flush after the retry
\* executor, its context still live, it has recorded a failure if and only if
\* it returns an error, and a success otherwise.
C35_BreakerOutcomeMatchesResult ==
  [][\A p \in Procs \ {Worker} :
       (pc[p] = "recorded" /\ pc'[p] \notin InFlushPcs /\ ~CtxDone(p))
       => (sendBatchFailed(sent[p].o, sent[p].err) <=> (fnRet'[p] # "nil"))]_vars

\* C36: whenever a call of Close() has returned, the final flush has completed
\* and the buffer is empty: no record accepted before it is still buffered or
\* held by a goroutine that has not returned from its Flush.
C36_CloseReturnsAfterFinalFlush ==
  \A p \in Closers :
    (flushFunc = "sendBatch" /\ pc[p] = "done")
    => /\ logs = <<>>
       /\ InFlush = {}
       /\ \A q \in Closers : pc[q] \in {"idle", "lockwait", "done"}

\* C37: in every reachable state of a breaker with threshold T >= 1, whatever
\* the sequence of Allow, RecordSuccess, RecordFailure and Reset: a closed
\* breaker has a failure counter below T, and the counter is never negative.
C37_ClosedBelowThreshold ==
  /\ cb.failureThreshold >= 1
  /\ cb.failures >= 0
  /\ cb.state = CircuitClosed => cb.failures < cb.failureThreshold

\* C37 witness: a breaker closed again by a half-open success has since
\* counted T - 1 > 0 failures and is still closed.
C37_Witness ==
  /\ cb.failureThreshold > 1
  /\ hoRun = cb.failureThreshold - 1
  /\ cb.failures = cb.failureThreshold - 1
  /\ cb.state = CircuitClosed
  /\ cbRet.op = "RecordFailure"

\* C38: recorded outcomes never take the breaker from open to closed: the
\* only steps that leave open are Allow() once the open-duration has passed
\* (to half-open) and Reset() (to closed); RecordSuccess() and
\* RecordFailure() on an open breaker leave it open.
C38_OpenLeftOnlyByAllowOrReset ==
  [][ /\ (cb.state = CircuitOpen /\ cb'.state # CircuitOpen) =>
           \/ /\ CBAllow
              /\ now - cb.lastStateChange >= cb.timeout
              /\ cb'.state = CircuitHalfOpen
           \/ /\ CBReset
              /\ cb'.state = CircuitClosed
      /\ ((CBRecordSuccess \/ CBRecordFailure) /\ cb.state = CircuitOpen) =>
           cb'.state = CircuitOpen ]_vars

\* C38 witness: a RecordSuccess() has arrived on an open breaker whose
\* open-duration had already passed: the counter is 0 and the state still open.
C38_Witness ==
  /\ cb.state = CircuitOpen
  /\ cbRet.op = "RecordSuccess"
  /\ cb.failures = 0
  /\ now - cb.lastStateChange >= cb.timeout

\* C39: the last-transition timestamp changes only when the state changes
\* (Reset apart): RecordFailure() on an open breaker does not restart the
\* open-duration, so the instant from which Allow() turns the breaker
\* half-open is not postponed.
C39_StampOnlyOnTransition ==
  [][ /\ (cb'.lastStateChange # cb.lastStateChange) =>
           (cb'.state # cb.state \/ CBReset)
      /\ (CBRecordFailure /\ cb.state = CircuitOpen) =>
           cb'.lastStateChange = cb.lastStateChange ]_vars

\* C40: for every retry configuration New accepts (MaxRetries is not
\* constrained), a withRetry that has returned has invoked the delivery
\* function at least once and has returned exactly one of a non-nil response
\* and a non-nil error, never (nil, nil).
C40_NeverNilNil ==
  rtPc = "done" =>
    /\ rtCalls >= 1
    /\ rtRet.resp.nil # rtRet.err.nil

====
